---- MODULE Spec2Model ----
(***************************************************************************)
(* Model of the plate lookup service (services/consultaPlaca.ts, most      *)
(* advanced revision): plate validation, the HTML extractor with its two   *)
(* tiers, the JSON adapters and the ordered fallback of consultarPlaca;    *)
(* and of the HTTP server around it (server.ts): the rate limiter and the  *)
(* GET /:placa route.                                                      *)
(*                                                                         *)
(* A text is a sequence of characters, each character a one-token string;  *)
(* the accented letters of the source are written "e^", "i'", "c," and     *)
(* their capitals "E^", "I'", "C,".                                        *)
(***************************************************************************)
EXTENDS Integers, Sequences, FiniteSets, TLC

VARIABLES
    entrada,    \* validarPlaca: the text under validation
    valida,     \* validarPlaca: <<>> before the call, <<answer>> after it
    html,       \* extrairDados: the document, a sequence of tables of cell texts
    ext,        \* extrairDados: the locals of the running call
    scraperApiKey,  \* process.env.SCRAPER_API_KEY is set (and not empty)
    res,        \* consultarPlaca: the state of the resolution
    pedido,     \* GET /:placa: the request in the route handler
    lim,        \* rateLimit: the ceiling, the map of entries, the clock
    chamadas,   \* extrairDados: the calls finished so far, document and result
    par,        \* consultarPlaca: two resolutions running at the same time
    adapt       \* the JSON adapters: a response and what each made of it

vars == <<entrada, valida, html, ext, scraperApiKey, res, pedido, lim, chamadas,
          par, adapt>>

(***************************************************************************)
(* Text primitives of the JavaScript runtime                               *)
(***************************************************************************)
Minusculas == <<"a", "b", "c", "d", "e", "f", "g", "h", "i", "j", "k", "l", "m",
                "n", "o", "p", "q", "r", "s", "t", "u", "v", "w", "x", "y", "z",
                "e^", "i'", "c,">>
Maiusculas == <<"A", "B", "C", "D", "E", "F", "G", "H", "I", "J", "K", "L", "M",
                "N", "O", "P", "Q", "R", "S", "T", "U", "V", "W", "X", "Y", "Z",
                "E^", "I'", "C,">>
Digitos == {"0", "1", "2", "3", "4", "5", "6", "7", "8", "9"}
Brancos == {" ", "\t", "\n"}
LetrasAZ == {Maiusculas[k] : k \in 1..26}

Range(s) == {s[k] : k \in DOMAIN s}

toLowerChar(c) ==
    IF c \in Range(Maiusculas)
    THEN Minusculas[CHOOSE k \in DOMAIN Maiusculas : Maiusculas[k] = c]
    ELSE c

toUpperChar(c) ==
    IF c \in Range(Minusculas)
    THEN Maiusculas[CHOOSE k \in DOMAIN Minusculas : Minusculas[k] = c]
    ELSE c

toLowerCase(s) == [k \in 1..Len(s) |-> toLowerChar(s[k])]
toUpperCase(s) == [k \in 1..Len(s) |-> toUpperChar(s[k])]

isDigit(c) == c \in Digitos
isSpace(c) == c \in Brancos

\* String.prototype.trim
RECURSIVE trimStart(_)
trimStart(s) ==
    IF s # <<>> /\ isSpace(Head(s)) THEN trimStart(Tail(s)) ELSE s

RECURSIVE trimEnd(_)
trimEnd(s) ==
    IF s # <<>> /\ isSpace(s[Len(s)])
    THEN trimEnd(SubSeq(s, 1, Len(s) - 1))
    ELSE s

trim(s) == trimEnd(trimStart(s))

\* s.replace(/\s+/g, " ")
RECURSIVE collapseSpaces(_)
collapseSpaces(s) ==
    IF s = <<>> THEN <<>>
    ELSE IF isSpace(Head(s))
         THEN <<" ">> \o collapseSpaces(trimStart(s))
         ELSE <<Head(s)>> \o collapseSpaces(Tail(s))

startsWith(s, p) == Len(p) <= Len(s) /\ SubSeq(s, 1, Len(p)) = p

includes(s, p) ==
    \E k \in 0..(Len(s) - Len(p)) : SubSeq(s, k + 1, k + Len(p)) = p

(***************************************************************************)
(* validarPlaca                                                            *)
(***************************************************************************)
\* limparPlaca removing the hyphens only
limparPlacaSoHifen(placa) ==
    toUpperCase(SelectSeq(placa, LAMBDA c : c # "-"))

\* placa.replace(/[-\s]/g, "").toUpperCase()
limparPlaca(placa) ==
    toUpperCase(SelectSeq(placa, LAMBDA c : c # "-" /\ ~isSpace(c)))

\* [A-Z] under the i flag
classeAZi(c) == toUpperChar(c) \in LetrasAZ

\* /^[A-Z]{3}[0-9][A-Z0-9][0-9]{2}$/i .test(s)
PLACA_REGEX(s) ==
    /\ Len(s) = 7
    /\ \A k \in 1..3 : classeAZi(s[k])
    /\ isDigit(s[4])
    /\ (classeAZi(s[5]) \/ isDigit(s[5]))
    /\ isDigit(s[6])
    /\ isDigit(s[7])

validarPlaca(placa) == PLACA_REGEX(limparPlaca(placa))

(***************************************************************************)
(* The vehicle record (models/Carro.ts) and JavaScript's null / undefined   *)
(***************************************************************************)
Campos == <<"marca", "modelo", "importado", "ano", "anoModelo", "cor",
            "cilindrada", "potencia", "combustivel", "chassi", "motor",
            "passageiros", "uf", "municipio">>
CamposSet == Range(Campos)

\* Neither is a text: no character of a text is the token "null" / "undefined".
Nulo == <<"null">>
Indefinido == <<"undefined">>

\* v || null
ouNulo(v) == IF v = Indefinido \/ v = Nulo \/ v = <<>> THEN Nulo ELSE v

(***************************************************************************)
(* LABEL_MAP, LABELS_IGNORAR and the label / value classifiers             *)
(***************************************************************************)
LABEL_MAP_ENTRIES == <<
    <<(<<"m", "a", "r", "c", "a">>), "marca">>,
    <<(<<"m", "o", "d", "e", "l", "o">>), "modelo">>,
    <<(<<"i", "m", "p", "o", "r", "t", "a", "d", "o">>), "importado">>,
    <<(<<"a", "n", "o">>), "ano">>,
    <<(<<"a", "n", "o", " ", "m", "o", "d", "e", "l", "o">>), "anoModelo">>,
    <<(<<"a", "n", "o", "-", "m", "o", "d", "e", "l", "o">>), "anoModelo">>,
    <<(<<"a", "n", "o", "m", "o", "d", "e", "l", "o">>), "anoModelo">>,
    <<(<<"c", "o", "r">>), "cor">>,
    <<(<<"c", "i", "l", "i", "n", "d", "r", "a", "d", "a">>), "cilindrada">>,
    <<(<<"c", "i", "l", "i", "n", "d", "r", "a", "d", "a", "s">>), "cilindrada">>,
    <<(<<"p", "o", "t", "e", "n", "c", "i", "a">>), "potencia">>,
    <<(<<"p", "o", "t", "e^", "n", "c", "i", "a">>), "potencia">>,
    <<(<<"c", "o", "m", "b", "u", "s", "t", "i", "v", "e", "l">>), "combustivel">>,
    <<(<<"c", "o", "m", "b", "u", "s", "t", "i'", "v", "e", "l">>), "combustivel">>,
    <<(<<"c", "h", "a", "s", "s", "i">>), "chassi">>,
    <<(<<"m", "o", "t", "o", "r">>), "motor">>,
    <<(<<"p", "a", "s", "s", "a", "g", "e", "i", "r", "o", "s">>), "passageiros">>,
    <<(<<"u", "f">>), "uf">>,
    <<(<<"e", "s", "t", "a", "d", "o">>), "uf">>,
    <<(<<"m", "u", "n", "i", "c", "i", "p", "i", "o">>), "municipio">>,
    <<(<<"m", "u", "n", "i", "c", "i'", "p", "i", "o">>), "municipio">>,
    <<(<<"c", "i", "d", "a", "d", "e">>), "municipio">> >>

\* LABEL_MAP is an object literal: an all-lowercase property name inherited from
\* Object.prototype is found by LABEL_MAP[...] too, and its value (a function,
\* an object) is truthy. Used as a key of resultado it is a key of its own.
HERDADOS == <<
    <<(<<"c", "o", "n", "s", "t", "r", "u", "c", "t", "o", "r">>), "function Object">>,
    <<(<<"_", "_", "p", "r", "o", "t", "o", "_", "_">>), "[object Object]">> >>

ChavesResultado == CamposSet \cup {HERDADOS[k][2] : k \in DOMAIN HERDADOS}

\* LABEL_MAP[norm]: the field, or "" when the lookup is undefined
LABEL_MAP(norm) ==
    IF \E k \in DOMAIN LABEL_MAP_ENTRIES : LABEL_MAP_ENTRIES[k][1] = norm
    THEN LABEL_MAP_ENTRIES[CHOOSE k \in DOMAIN LABEL_MAP_ENTRIES :
                               LABEL_MAP_ENTRIES[k][1] = norm][2]
    ELSE IF \E k \in DOMAIN HERDADOS : HERDADOS[k][1] = norm
         THEN HERDADOS[CHOOSE k \in DOMAIN HERDADOS : HERDADOS[k][1] = norm][2]
         ELSE ""

LABELS_IGNORAR == {
    <<"v", "a", "l", "o", "r", " ", "v", "e", "n", "a", "l">>,
    <<"v", "a", "l", "o", "r">>,
    <<"f", "i", "p", "e">>,
    <<"p", "r", "e", "c,", "o">>,
    <<"p", "r", "e", "c", "o">>,
    <<"s", "e", "g", "u", "r", "o">>,
    <<"i", "p", "v", "a">>,
    <<"t", "a", "b", "e", "l", "a">>,
    <<"r", "e", "f", "e", "r", "e^", "n", "c", "i", "a">>,
    <<"r", "e", "f", "e", "r", "e", "n", "c", "i", "a">>,
    <<"r", "$">> }

normalizarLabel(label) ==
    trim(collapseSpaces(SelectSeq(toLowerCase(label), LAMBDA c : c # ":")))

\* /^\d{1,3}(\.\d{3})*(,\d{2})?$/ : what may follow the leading digits, from p on
RECURSIVE gruposMilhar(_, _)
gruposMilhar(v, p) ==
    \/ p = Len(v) + 1
    \/ /\ p + 2 = Len(v)
       /\ v[p] = ","
       /\ isDigit(v[p + 1])
       /\ isDigit(v[p + 2])
    \/ /\ p + 3 <= Len(v)
       /\ v[p] = "."
       /\ \A k \in 1..3 : isDigit(v[p + k])
       /\ gruposMilhar(v, p + 4)

regexMilhar(v) ==
    \E n \in 1..3 :
        /\ n <= Len(v)
        /\ \A k \in 1..n : isDigit(v[k])
        /\ gruposMilhar(v, n + 1)

\* isValorFinanceiro with a numeral pattern that asks for a thousand group,
\* /^\d{1,3}(\.\d{3})+(,\d{2})?$/
isValorFinanceiroComGrupo(valor) ==
    LET v == toLowerCase(trim(valor))
    IN  \/ startsWith(v, <<"r", "$">>)
        \/ startsWith(v, <<"r", " ", "$">>)
        \/ regexMilhar(v) /\ \E k \in DOMAIN v : v[k] = "."

isValorFinanceiro(valor) ==
    LET v == toLowerCase(trim(valor))
    IN  \/ startsWith(v, <<"r", "$">>)
        \/ startsWith(v, <<"r", " ", "$">>)
        \/ regexMilhar(v)

isLabelIgnorado(label) ==
    LET norm == normalizarLabel(label)
    IN  \E ign \in LABELS_IGNORAR : includes(norm, ign)

(***************************************************************************)
(* extrairDados: the document is the sequence of its tables, a table the   *)
(* sequence of the texts of its td cells                                   *)
(***************************************************************************)
MIN_TDS == 28

RECURSIVE achatar(_)
achatar(tabelas) ==
    IF tabelas = <<>> THEN <<>> ELSE Head(tabelas) \o achatar(Tail(tabelas))

\* $("td"): every cell of the document, in document order
todosTds(doc) == achatar(doc)

\* the position in $("td") of cell k (0-based) of table t (0-based)
posicaoGlobal(doc, t, k) == Len(achatar(SubSeq(doc, 1, t))) + k

\* the locals of a call at its first line; examinados, origem, consultadas,
\* aceitos and rejeitados record what the call did: the cells examined as
\* labels, the cell each field was read from, the tables the positional loop
\* looked at, and the cells that passed and that failed the value test of
\* line 127
extInicial ==
    [fase |-> "tier1", i |-> 0,
     resultado |-> [c \in ChavesResultado |-> Indefinido],
     dentroDeSecaoFipe |-> FALSE, t |-> 0, retorno |-> <<>>,
     examinados |-> {}, origem |-> [c \in CamposSet |-> -1],
     consultadas |-> {}, aceitos |-> {}, rejeitados |-> {}]

\* abrirChamada with a flag that outlives the call that set it
abrirChamadaHerdaBandeira(anterior) ==
    [extInicial EXCEPT !.dentroDeSecaoFipe = anterior.dentroDeSecaoFipe]

\* lines 105-112: resultado and dentroDeSecaoFipe are locals of the call, so
\* a call starts from extInicial whatever the call before it left behind
abrirChamada(anterior) == extInicial

\* valorAceito without the test of the currency shape
valorAceitoSemFinanceiro(valor) ==
    /\ valor # <<>>
    /\ LABEL_MAP(normalizarLabel(valor)) = ""
    /\ ~isLabelIgnorado(valor)

\* the value test of line 127
valorAceito(valor) ==
    /\ valor # <<>>
    /\ LABEL_MAP(normalizarLabel(valor)) = ""
    /\ ~isValorFinanceiro(valor)
    /\ ~isLabelIgnorado(valor)

\* tier1Iter with a flag that does not gate the fields
tier1IterSemBandeira(tds, e) ==
    LET rawLabel == trim(tds[e.i + 1])
        campo == LABEL_MAP(normalizarLabel(rawLabel))
        valor == trim(tds[e.i + 2])
        visto == [e EXCEPT !.examinados = @ \cup {e.i}]
    IN  IF isLabelIgnorado(rawLabel)
        THEN [visto EXCEPT !.dentroDeSecaoFipe = TRUE, !.i = e.i + 1]
        ELSE IF campo # ""
        THEN IF ~valorAceito(valor)
             THEN [visto EXCEPT !.rejeitados = @ \cup {e.i + 1}, !.i = e.i + 1]
             ELSE IF e.resultado[campo] = Indefinido
                  THEN [visto EXCEPT
                          !.resultado[campo] = valor,
                          !.origem = IF campo \in CamposSet
                                     THEN [@ EXCEPT ![campo] = e.i + 1]
                                     ELSE @,
                          !.aceitos = @ \cup {e.i + 1},
                          !.i = e.i + 2]
                  ELSE [visto EXCEPT !.aceitos = @ \cup {e.i + 1}, !.i = e.i + 2]
        ELSE [visto EXCEPT !.i = e.i + 1]

\* tier1Iter where a later pair overwrites the field
tier1IterUltimoVence(tds, e) ==
    LET rawLabel == trim(tds[e.i + 1])
        campo == LABEL_MAP(normalizarLabel(rawLabel))
        valor == trim(tds[e.i + 2])
        visto == [e EXCEPT !.examinados = @ \cup {e.i}]
    IN  IF isLabelIgnorado(rawLabel)
        THEN [visto EXCEPT !.dentroDeSecaoFipe = TRUE, !.i = e.i + 1]
        ELSE IF campo # "" /\ ~e.dentroDeSecaoFipe
        THEN IF ~valorAceito(valor)
             THEN [visto EXCEPT !.rejeitados = @ \cup {e.i + 1}, !.i = e.i + 1]
             ELSE [visto EXCEPT
                     !.resultado[campo] = valor,
                     !.origem = IF campo \in CamposSet
                                THEN [@ EXCEPT ![campo] = e.i + 1]
                                ELSE @,
                     !.aceitos = @ \cup {e.i + 1},
                     !.i = e.i + 2]
        ELSE [visto EXCEPT !.i = e.i + 1]

\* tier1Iter without the i++ of line 132: the cell of an accepted value is
\* the label of the next iteration
tier1IterSemSalto(tds, e) ==
    LET rawLabel == trim(tds[e.i + 1])
        labelNorm == normalizarLabel(rawLabel)
        campo == LABEL_MAP(labelNorm)
        valor == trim(tds[e.i + 2])
        visto == [e EXCEPT !.examinados = @ \cup {e.i}]
    IN  IF isLabelIgnorado(rawLabel)
        THEN [visto EXCEPT !.dentroDeSecaoFipe = TRUE, !.i = e.i + 1]
        ELSE IF campo # "" /\ ~e.dentroDeSecaoFipe
        THEN IF ~valorAceito(valor)
             THEN [visto EXCEPT !.rejeitados = @ \cup {e.i + 1}, !.i = e.i + 1]
             ELSE IF e.resultado[campo] = Indefinido
                  THEN [visto EXCEPT
                          !.resultado[campo] = valor,
                          !.origem = IF campo \in CamposSet
                                     THEN [@ EXCEPT ![campo] = e.i + 1]
                                     ELSE @,
                          !.aceitos = @ \cup {e.i + 1},
                          !.i = e.i + 1]
                  ELSE [visto EXCEPT !.aceitos = @ \cup {e.i + 1}, !.i = e.i + 1]
        ELSE [visto EXCEPT !.i = e.i + 1]

\* one iteration of the label scan (lines 113-135), the increment included
tier1Iter(tds, e) ==
    LET rawLabel == trim(tds[e.i + 1])
        labelNorm == normalizarLabel(rawLabel)
        campo == LABEL_MAP(labelNorm)
        valor == trim(tds[e.i + 2])
        visto == [e EXCEPT !.examinados = @ \cup {e.i}]
    IN  IF isLabelIgnorado(rawLabel)
        THEN [visto EXCEPT !.dentroDeSecaoFipe = TRUE, !.i = e.i + 1]
        ELSE IF campo # "" /\ ~e.dentroDeSecaoFipe
        THEN IF ~valorAceito(valor)
             THEN [visto EXCEPT !.rejeitados = @ \cup {e.i + 1}, !.i = e.i + 1]
             ELSE IF e.resultado[campo] = Indefinido
                  THEN [visto EXCEPT
                          !.resultado[campo] = valor,
                          !.origem = IF campo \in CamposSet
                                     THEN [@ EXCEPT ![campo] = e.i + 1]
                                     ELSE @,
                          !.aceitos = @ \cup {e.i + 1},
                          !.i = e.i + 2]
                  ELSE [visto EXCEPT !.aceitos = @ \cup {e.i + 1}, !.i = e.i + 2]
        ELSE [visto EXCEPT !.i = e.i + 1]

buildCarro(r) == [c \in CamposSet |-> ouNulo(r[c])]

\* tier1Fim testing the model instead of the brand
tier1FimTestaModelo(e) ==
    IF e.resultado["modelo"] # Indefinido /\ e.resultado["modelo"] # <<>>
    THEN [e EXCEPT !.fase = "fim", !.retorno = <<buildCarro(e.resultado)>>]
    ELSE [e EXCEPT !.fase = "tier2", !.t = 0]

\* lines 137-144: return the record of the label scan, or go on to the tables
tier1Fim(e) ==
    IF e.resultado["marca"] # Indefinido /\ e.resultado["marca"] # <<>>
    THEN [e EXCEPT !.fase = "fim", !.retorno = <<buildCarro(e.resultado)>>]
    ELSE [e EXCEPT !.fase = "tier2", !.t = 0]

\* lines 149-153: the cells 1, 3, ..., 27 of the table, trimmed
valoresDe(tableTds) ==
    [k \in 1..14 |-> IF 2 * k <= Len(tableTds) THEN trim(tableTds[2 * k]) ELSE Nulo]

\* tier2Iter where a rejected brand slot ends the loop with null
tier2IterParaNaRejeitada(doc, e) ==
    LET tableTds == doc[e.t + 1]
        valores == valoresDe(tableTds)
    IN  IF Len(tableTds) < MIN_TDS
        THEN [e EXCEPT !.consultadas = @ \cup {e.t}, !.t = e.t + 1]
        ELSE IF valores[1] # <<>> /\ valores[1] # Nulo /\ ~isValorFinanceiro(valores[1])
             THEN [e EXCEPT
                     !.fase = "fim",
                     !.consultadas = @ \cup {e.t},
                     !.retorno = <<[c \in CamposSet |->
                                      valores[CHOOSE k \in 1..14 : Campos[k] = c]]>>,
                     !.origem = [c \in CamposSet |->
                                   posicaoGlobal(doc, e.t,
                                       2 * (CHOOSE k \in 1..14 : Campos[k] = c) - 1)]]
             ELSE [e EXCEPT !.fase = "fim", !.consultadas = @ \cup {e.t},
                            !.retorno = <<>>]

\* one iteration of the loop over the tables (lines 145-174)
tier2Iter(doc, e) ==
    LET tableTds == doc[e.t + 1]
        valores == valoresDe(tableTds)
    IN  IF Len(tableTds) < MIN_TDS
        THEN [e EXCEPT !.consultadas = @ \cup {e.t}, !.t = e.t + 1]
        ELSE IF valores[1] # <<>> /\ valores[1] # Nulo /\ ~isValorFinanceiro(valores[1])
             THEN [e EXCEPT
                     !.fase = "fim",
                     !.consultadas = @ \cup {e.t},
                     !.retorno = <<[c \in CamposSet |->
                                      valores[CHOOSE k \in 1..14 : Campos[k] = c]]>>,
                     !.origem = [c \in CamposSet |->
                                   posicaoGlobal(doc, e.t,
                                       2 * (CHOOSE k \in 1..14 : Campos[k] = c) - 1)]]
             ELSE [e EXCEPT !.consultadas = @ \cup {e.t}, !.t = e.t + 1]

\* line 176
tier2Fim(e) == [e EXCEPT !.fase = "fim", !.retorno = <<>>]

\* one step of the call
extPasso(doc, e) ==
    CASE e.fase = "tier1" /\ e.i < Len(todosTds(doc)) - 1 -> tier1Iter(todosTds(doc), e)
      [] e.fase = "tier1" -> tier1Fim(e)
      [] e.fase = "tier2" /\ e.t < Len(doc) -> tier2Iter(doc, e)
      [] e.fase = "tier2" -> tier2Fim(e)
      [] OTHER -> e

RECURSIVE extCorrer(_, _)
extCorrer(doc, e) == IF e.fase = "fim" THEN e ELSE extCorrer(doc, extPasso(doc, e))

\* extrairDados(html): <<>> for null, <<carro>> for a record
extrairDados(doc) == extCorrer(doc, extInicial).retorno

(***************************************************************************)
(* What axios hands back: the request fails (transport error, timeout, a   *)
(* status outside 2xx: axios rejects), or a response with status and data  *)
(***************************************************************************)
\* the outcome of a function body: a value (<<>> for null), or an exception
valorDe(v) == [lancou |-> FALSE, valor |-> v]
excecao == [lancou |-> TRUE, valor |-> <<>>]

\* try { corpo } catch (error) { console.log(...) }  return null;
tryCatch(corpo) == IF corpo.lancou THEN valorDe(<<>>) ELSE corpo

\* json.chave of a loosely typed payload (response.data?.chave)
campoJson(data, chave) ==
    IF data.forma = "objeto" THEN data.obj[chave] ELSE Indefinido

truthy(v) == v # Indefinido /\ v # Nulo /\ v # <<>>

\* primeiroValor with ?? in the place of ||: the first key that is present,
\* empty or not
RECURSIVE primeiroValorPresente(_, _)
primeiroValorPresente(data, chaves) ==
    IF chaves = <<>> THEN Nulo
    ELSE IF campoJson(data, Head(chaves)) \notin {Indefinido, Nulo}
         THEN campoJson(data, Head(chaves))
         ELSE primeiroValorPresente(data, Tail(chaves))

\* a || b || ... || null over the keys of one field
RECURSIVE primeiroValor(_, _)
primeiroValor(data, chaves) ==
    IF chaves = <<>> THEN Nulo
    ELSE IF truthy(campoJson(data, Head(chaves)))
         THEN campoJson(data, Head(chaves))
         ELSE primeiroValor(data, Tail(chaves))

\* the keys read for each field, in the order of the || chain
CHAVES_GATEWAY ==
    [marca |-> <<"MARCA">>, modelo |-> <<"MODELO">>, importado |-> <<"importado">>,
     ano |-> <<"ano">>, anoModelo |-> <<"anoModelo">>, cor |-> <<"cor">>,
     cilindrada |-> <<"cilindradas">>, potencia |-> <<"potencia">>,
     combustivel |-> <<"combustivel">>, chassi |-> <<"chassi">>,
     motor |-> <<"motor">>, passageiros |-> <<"passageiros">>, uf |-> <<"uf">>,
     municipio |-> <<"municipio">>]

CHAVES_APIPLACAS ==
    [marca |-> <<"marca", "MARCA">>, modelo |-> <<"modelo", "MODELO">>,
     importado |-> <<"importado">>, ano |-> <<"ano", "anoFabricacao">>,
     anoModelo |-> <<"anoModelo">>, cor |-> <<"cor", "COR">>,
     cilindrada |-> <<"cilindrada", "cilindradas">>, potencia |-> <<"potencia">>,
     combustivel |-> <<"combustivel">>, chassi |-> <<"chassi">>,
     motor |-> <<"motor">>, passageiros |-> <<"passageiros">>,
     uf |-> <<"uf", "UF">>, municipio |-> <<"municipio", "MUNICIPIO">>]

ChavesJson ==
    UNION {Range(CHAVES_GATEWAY[c]) \cup Range(CHAVES_APIPLACAS[c]) : c \in CamposSet}

\* lines 200-232, inside the try
corpoGateway(resp) ==
    IF resp.tipo = "erro" THEN excecao
    ELSE IF resp.status = 200 /\ truthy(campoJson(resp.data, "MARCA"))
         THEN valorDe(<<[c \in CamposSet |-> primeiroValor(resp.data, CHAVES_GATEWAY[c])]>>)
         ELSE valorDe(<<>>)

consultarGateway(resp) == tryCatch(corpoGateway(resp))

\* corpoApiPlacas with the acceptance test widened to the model keys
corpoApiPlacasAceitaModelo(resp) ==
    IF resp.tipo = "erro" THEN excecao
    ELSE IF /\ resp.data.forma # "vazio"
            /\ \/ truthy(campoJson(resp.data, "marca")) \/ truthy(campoJson(resp.data, "MARCA"))
               \/ truthy(campoJson(resp.data, "modelo")) \/ truthy(campoJson(resp.data, "MODELO"))
         THEN valorDe(<<[c \in CamposSet |-> primeiroValor(resp.data, CHAVES_APIPLACAS[c])]>>)
         ELSE valorDe(<<>>)

\* lines 241-277, inside the try
corpoApiPlacas(resp) ==
    IF resp.tipo = "erro" THEN excecao
    ELSE IF /\ resp.data.forma # "vazio"
            /\ (truthy(campoJson(resp.data, "marca")) \/ truthy(campoJson(resp.data, "MARCA")))
         THEN valorDe(<<[c \in CamposSet |-> primeiroValor(resp.data, CHAVES_APIPLACAS[c])]>>)
         ELSE valorDe(<<>>)

consultarApiPlacas(resp) == tryCatch(corpoApiPlacas(resp))

\* lines 290-302 and 320-331, inside the try: cheerio.load of data that is not
\* a string throws or yields a document without cells; either way no record
corpoSite(resp) ==
    IF resp.tipo = "erro" THEN excecao
    ELSE IF resp.status = 200 /\ resp.data.forma # "vazio"
         THEN IF resp.data.forma = "html"
              THEN valorDe(extrairDados(resp.data.doc))
              ELSE valorDe(<<>>)
         ELSE valorDe(<<>>)

\* consultarSiteDireto without its try / catch
consultarSiteDiretoSemCatch(resp) == corpoSite(resp)

consultarSiteDireto(resp) == tryCatch(corpoSite(resp))

\* after the key test of lines 316-317
consultarSiteViaProxy(resp) == tryCatch(corpoSite(resp))

SITES == <<"PlacaIPVA", "Keplaca", "PlacaFipe">>

(***************************************************************************)
(* consultarPlaca: the continuations between one await and the next        *)
(***************************************************************************)
resInicial ==
    [pc |-> "inicio", placaLimpa |-> <<>>, site |-> 0, emVoo |-> {},
     resultado |-> <<>>, historico |-> <<>>]

\* the request goes out and the call suspends on it
pedir(r, passo, site, fonte, via) ==
    [r EXCEPT !.pc = passo, !.site = site,
              !.emVoo = @ \cup {<<fonte, via>>},
              !.historico = Append(@, [ev |-> "pedido", fonte |-> fonte, via |-> via,
                                       rendeu |-> <<>>])]

\* the awaited call settles with its value
responder(r, fonte, via, valor) ==
    [r EXCEPT !.emVoo = @ \ {<<fonte, via>>},
              !.historico = Append(@, [ev |-> "resposta", fonte |-> fonte, via |-> via,
                                       rendeu |-> valor])]

retornar(r, valor) == [r EXCEPT !.pc = "retornou", !.resultado = valor]
rejeitar(r) == [r EXCEPT !.pc = "rejeitada"]

\* lines 345-351: clean the plate, ask the gateway
chamarConsultarPlaca(r, placa) ==
    pedir([r EXCEPT !.placaLimpa = limparPlaca(placa)], "gateway", 0, "Gateway", "api")

\* aposDireto without the key test of line 368
aposDiretoSemChave(r, chave) == pedir(r, "proxy", 0, SITES[1], "proxy")

\* lines 367-380: the proxy round, if the key is set, or the end
\* (the key test of consultarSiteViaProxy, lines 316-317, reads the same value)
aposDireto(r, chave) ==
    IF chave
    THEN pedir(r, "proxy", 0, SITES[1], "proxy")
    ELSE retornar(r, <<>>)

\* aposGateway without the early return of line 352
aposGatewaySegue(r, resp) ==
    LET c == consultarGateway(resp)
        r1 == responder(r, "Gateway", "api", c.valor)
    IN  IF c.lancou THEN rejeitar(r1)
        ELSE pedir(r1, "apiplacas", 0, "ApiPlacas", "api")

\* lines 351-356
aposGateway(r, resp) ==
    LET c == consultarGateway(resp)
        r1 == responder(r, "Gateway", "api", c.valor)
    IN  IF c.lancou THEN rejeitar(r1)
        ELSE IF c.valor # <<>> THEN retornar(r1, c.valor)
        ELSE pedir(r1, "apiplacas", 0, "ApiPlacas", "api")

\* aposApiPlacas asking the three sites at once instead of one after another
aposApiPlacasEmParalelo(r, resp) ==
    LET c == consultarApiPlacas(resp)
        r1 == responder(r, "ApiPlacas", "api", c.valor)
    IN  IF c.lancou THEN rejeitar(r1)
        ELSE IF c.valor # <<>> THEN retornar(r1, c.valor)
        ELSE pedir(pedir(pedir(r1, "direto", 0, SITES[1], "direto"),
                         "direto", 0, SITES[2], "direto"),
                   "direto", 0, SITES[3], "direto")

\* lines 356-363
aposApiPlacas(r, resp) ==
    LET c == consultarApiPlacas(resp)
        r1 == responder(r, "ApiPlacas", "api", c.valor)
    IN  IF c.lancou THEN rejeitar(r1)
        ELSE IF c.valor # <<>> THEN retornar(r1, c.valor)
        ELSE pedir(r1, "direto", 0, SITES[1], "direto")

\* lines 361-368: one turn of the loop over SITES
aposSiteDireto(r, resp, chave) ==
    LET c == consultarSiteDireto(resp)
        r1 == responder(r, SITES[r.site + 1], "direto", c.valor)
    IN  IF c.lancou THEN rejeitar(r1)
        ELSE IF c.valor # <<>> THEN retornar(r1, c.valor)
        ELSE IF r.site + 1 < Len(SITES)
             THEN pedir(r1, "direto", r.site + 1, SITES[r.site + 2], "direto")
             ELSE aposDireto(r1, chave)

\* aposSiteViaProxy asking the last site a second time when it fails
aposSiteViaProxyRepete(r, resp) ==
    LET c == consultarSiteViaProxy(resp)
        r1 == responder(r, SITES[r.site + 1], "proxy", c.valor)
        jaRepetiu == \E k, m \in DOMAIN r.historico :
                        /\ k < m
                        /\ r.historico[k] = r.historico[m]
                        /\ r.historico[k].ev = "pedido"
    IN  IF c.lancou THEN rejeitar(r1)
        ELSE IF c.valor # <<>> THEN retornar(r1, c.valor)
        ELSE IF r.site + 1 < Len(SITES)
             THEN pedir(r1, "proxy", r.site + 1, SITES[r.site + 2], "proxy")
             ELSE IF ~jaRepetiu
                  THEN pedir(r1, "proxy", r.site, SITES[r.site + 1], "proxy")
                  ELSE retornar(r1, <<>>)

\* lines 370-380: one turn of the loop over SITES through the proxy
aposSiteViaProxy(r, resp) ==
    LET c == consultarSiteViaProxy(resp)
        r1 == responder(r, SITES[r.site + 1], "proxy", c.valor)
    IN  IF c.lancou THEN rejeitar(r1)
        ELSE IF c.valor # <<>> THEN retornar(r1, c.valor)
        ELSE IF r.site + 1 < Len(SITES)
             THEN pedir(r1, "proxy", r.site + 1, SITES[r.site + 2], "proxy")
             ELSE retornar(r1, <<>>)

(***************************************************************************)
(* Two calls of consultarPlaca in one process: each call has its own       *)
(* placaLimpa, resultado and loop position, and the module has no binding  *)
(* that a call writes                                                      *)
(***************************************************************************)
\* the continuation of a suspended call when its awaited request settles
continuar(r, resp, chave) ==
    CASE r.pc = "gateway" -> aposGateway(r, resp)
      [] r.pc = "apiplacas" -> aposApiPlacas(r, resp)
      [] r.pc = "direto" -> aposSiteDireto(r, resp, chave)
      [] r.pc = "proxy" -> aposSiteViaProxy(r, resp)
      [] OTHER -> r

\* passoPar with the position of the loop over SITES held by the module
\* instead of the call
passoParPosicaoPartilhada(ps, i, resp, chave) ==
    LET r1 == continuar(ps[i].r, resp, chave)
    IN  [ps EXCEPT ![i].r = r1,
                   ![i].recebidas = Append(@, resp),
                   ![3 - i].r.site = r1.site]

\* the request of call i settles: only the state of call i changes;
\* recebidas keeps the responses the call was given
passoPar(ps, i, resp, chave) ==
    [ps EXCEPT ![i].r = continuar(@, resp, chave),
               ![i].recebidas = Append(@, resp)]

(***************************************************************************)
(* server.ts: the rate limiter (rateLimit and the periodic sweep)          *)
(***************************************************************************)
RATE_LIMIT_PADRAO == 30
RATE_WINDOW_MS == 60000
LIMPEZA_MS == 5 * 60000

\* the keys of rateLimitMap the runs use: a client address and the fallback
Chaves == {"10.0.0.1", "unknown"}

\* req.ip || req.socket.remoteAddress || "unknown" (line 420)
chaveDe(req) ==
    IF req.ip # "" THEN req.ip
    ELSE IF req.remoteAddress # "" THEN req.remoteAddress
    ELSE "unknown"

\* parseInt(process.env.RATE_LIMIT || "30") (line 412): <<n>> for a number,
\* <<>> for NaN, the value of a text that does not start with digits
parseRateLimit(env) ==
    IF env = "" THEN <<RATE_LIMIT_PADRAO>>
    ELSE IF env = "abc" THEN <<>>
    ELSE <<CHOOSE n \in 0..9 : ToString(n) = env>>

\* entry.count >= RATE_LIMIT (line 430); every comparison with NaN is false
atingiuLimite(count, limite) == limite # <<>> /\ count >= limite[1]

\* now > entry.resetAt (lines 424 and 446)
expirou(entry, now) == now > entry.resetAt

\* the state of the module before the first request; registo is the record
\* of what the limiter decided, request by request
limInicial(limite) ==
    [RATE_LIMIT |-> limite,
     rateLimitMap |-> [k \in Chaves |-> <<>>],
     agora |-> 0,
     proximaLimpeza |-> LIMPEZA_MS,
     registo |-> <<>>]

decisao(l, ip, admitido, abriu) ==
    Append(l.registo, [chave |-> ip, t |-> l.agora, admitido |-> admitido,
                       abriu |-> abriu])

\* rateLimit (lines 415-440): the new state of the module, whether next() was
\* called, and the status sent when it was not
rateLimit(l, req) ==
    LET ip == chaveDe(req)
        now == l.agora
        entry == l.rateLimitMap[ip]
    IN  IF entry = <<>> \/ expirou(entry[1], now)
        THEN [lim |-> [l EXCEPT
                        !.rateLimitMap[ip] =
                            <<[count |-> 1, resetAt |-> now + RATE_WINDOW_MS]>>,
                        !.registo = decisao(l, ip, TRUE, TRUE)],
              next |-> TRUE, status |-> 0]
        ELSE IF atingiuLimite(entry[1].count, l.RATE_LIMIT)
        THEN [lim |-> [l EXCEPT !.registo = decisao(l, ip, FALSE, FALSE)],
              next |-> FALSE, status |-> 429]
        ELSE [lim |-> [l EXCEPT
                        !.rateLimitMap[ip] = <<[entry[1] EXCEPT !.count = @ + 1]>>,
                        !.registo = decisao(l, ip, TRUE, FALSE)],
              next |-> TRUE, status |-> 0]

\* the callback of setInterval (lines 443-448): expired entries are deleted
limpar(l) ==
    [l EXCEPT
       !.rateLimitMap =
           [k \in Chaves |->
               IF l.rateLimitMap[k] # <<>> /\ expirou(l.rateLimitMap[k][1], l.agora)
               THEN <<>> ELSE l.rateLimitMap[k]],
       !.proximaLimpeza = @ + LIMPEZA_MS]

(***************************************************************************)
(* server.ts: the route GET /:placa (lines 474-523)                        *)
(***************************************************************************)
ERRO_LIMITE == "Limite de consultas excedido. Aguarde 1 minuto."
ERRO_FORMATO == "Formato de placa invalido. Use o formato ABC1234 (antiga) ou ABC1D23 (Mercosul)."
ERRO_NAO_ENCONTRADO == "Carro nao encontrado. Verifique o numero da placa."
ERRO_INTERNO == "Erro interno ao consultar a placa. Tente novamente."

\* res.status(s).json({data, erros}): data is <<>> for null, <<carro>> for a
\* record; envios counts the responses sent
enviar(p, s, data, erros) ==
    [p EXCEPT !.pc = "respondeu", !.status = s, !.data = data, !.erros = erros,
              !.envios = @ + 1]

\* rotaLimitada with a body that carries no message
rotaLimitadaSemErros(p) == enviar(p, 429, <<>>, <<>>)

\* lines 431-434: the limiter answers in the handler's place
rotaLimitada(p) == enviar(p, 429, <<>>, <<ERRO_LIMITE>>)

\* rotaEntrada without the format test of line 479
rotaEntradaSemValidar(p) == [p EXCEPT !.pc = "aguarda"]

\* lines 475-494: the format test, then the call of consultarPlaca
rotaEntrada(p) ==
    IF ~validarPlaca(p.placa)
    THEN enviar(p, 400, <<>>, <<ERRO_FORMATO>>)
    ELSE [p EXCEPT !.pc = "aguarda"]

\* rotaSaida answering 200 without a record where the source answers 404
rotaSaidaSem404(p, r) ==
    IF r.pc = "rejeitada"
    THEN enviar(p, 500, <<>>, <<ERRO_INTERNO>>)
    ELSE enviar(p, 200, r.resultado, <<>>)

\* lines 494-522: consultarPlaca settled, with a value or with an exception
rotaSaida(p, r) ==
    IF r.pc = "rejeitada"
    THEN enviar(p, 500, <<>>, <<ERRO_INTERNO>>)
    ELSE IF r.resultado = <<>>
         THEN enviar(p, 404, <<>>, <<ERRO_NAO_ENCONTRADO>>)
         ELSE enviar(p, 200, r.resultado, <<>>)

(***************************************************************************)
(* Cell texts and documents of the extraction runs                         *)
(***************************************************************************)
TxMarca == <<"M", "a", "r", "c", "a", ":">>
TxModelo == <<"M", "o", "d", "e", "l", "o">>
TxRenault == <<"R", "E", "N", "A", "U", "L", "T", " ">>
Tx2020 == <<"2", "0", "2", "0">>
TxValorFipe == <<"V", "a", "l", "o", "r", " ", "F", "I", "P", "E">>
Tx45mil == <<"4", "5", ".", "0", "0", "0", ",", "0", "0">>
TxReais == <<"R", "$", " ", "4", "5", ".", "0", "0", "0", ",", "0", "0">>
TxReaisEspaco == <<"r", " ", "$", " ", "1", "0">>
Tx120 == <<"1", "2", "0">>
Tx5 == <<"5">>
Tx1234 == <<"1", ".", "2", "3", "4">>
Tx45milCurto == <<"4", "5", ".", "0", "0", "0", ",", "0">>
TxTabela == <<"T", "a", "b", "e", "l", "a">>
TxCor == <<" ", "C", "o", "r", " ">>
TxPrata == <<"P", "R", "A", "T", "A">>
TxVazio == <<>>
TxFiat == <<"F", "I", "A", "T">>
TxUno == <<"U", "N", "O">>
TxLogan == <<" ", "L", "O", "G", "A", "N">>

\* the texts of the free tables, of the filled tables and of the label / value
\* pairs
TextosNucleo == {TxMarca, TxModelo, TxRenault, Tx2020, TxValorFipe}
TextosTabela == {TxMarca, TxRenault, Tx2020, TxValorFipe, Tx45mil}
TextosPar == TextosNucleo \cup TextosTabela \cup
    {TxReais, TxReaisEspaco, Tx120, Tx5, Tx1234, Tx45milCurto, TxTabela, TxCor,
     TxPrata, TxVazio}

MaxCells == 5
MaxPrefixo == 4

SeqsAte(S, n) == UNION {[1..k -> S] : k \in 0..n}

\* the cells followed by empty cells up to n cells
encher(cells, n) ==
    cells \o [k \in 1..(IF n > Len(cells) THEN n - Len(cells) ELSE 0) |-> TxVazio]

primeiras(cells, n) == SubSeq(cells, 1, IF Len(cells) < n THEN Len(cells) ELSE n)
depois(cells, n) == SubSeq(cells, (IF Len(cells) < n THEN Len(cells) ELSE n) + 1, Len(cells))

\* one table of free cells
DocsLivres == {<<>>} \cup {<<c>> : c \in SeqsAte(TextosNucleo, MaxCells)}

\* a table filled up to the positional threshold, alone or followed by a
\* second table
DocsTabela ==
    UNION {{ <<encher(p, MIN_TDS)>>,
             <<encher(primeiras(p, 2), MIN_TDS), depois(p, 2)>> }
           : p \in SeqsAte(TextosTabela, MaxPrefixo)}

\* one label / value pair, alone or opening a table of 28 or of 27 cells
DocsPar ==
    UNION {{ <<(<<l, v>>)>>,
             <<encher(<<l, v>>, MIN_TDS)>>,
             <<encher(<<l, v>>, MIN_TDS - 1)>> }
           : l \in TextosPar, v \in TextosPar}

\* two or three tables with no label: a first table, short or of 28 cells,
\* and a later table of 28 cells, with brand slots that the positional
\* reading takes or rejects
TxEspacos == <<" ", " ">>
SlotsMarca == {TxVazio, TxEspacos, Tx45mil, TxReais, TxRenault}
DocsDuasTabelas ==
    UNION {{ <<encher(<<TxVazio, a>>, MIN_TDS), encher(<<TxVazio, b, TxVazio, c>>, MIN_TDS)>>,
             <<(<<TxVazio, a>>), encher(<<TxVazio, b, TxVazio, c>>, MIN_TDS)>>,
             <<encher(<<TxVazio, a>>, MIN_TDS), <<TxVazio, TxFiat>>,
               encher(<<TxVazio, b, TxVazio, c>>, MIN_TDS)>> }
           : a \in SlotsMarca, b \in SlotsMarca, c \in {TxUno, Tx45mil}}

\* a brand, then a numeric field with a numeral of one to four digits, then
\* the year
TxPassageiros == <<"P", "a", "s", "s", "a", "g", "e", "i", "r", "o", "s", ":">>
TxPotencia == <<"P", "o", "t", "e", "n", "c", "i", "a">>
TxCilindrada == <<"C", "i", "l", "i", "n", "d", "r", "a", "d", "a">>
TxAno == <<"A", "n", "o">>
Tx12 == <<"1", "2">>
Tx5Espacos == <<" ", "5", " ">>
Tx1600 == <<"1", "6", "0", "0">>
Numerais == {Tx5, Tx5Espacos, Tx12, Tx120, Tx1600, Tx2020}
DocsNumeros ==
    {<< <<TxMarca, TxRenault, l, n, TxAno, Tx2020>> >> :
        l \in {TxPassageiros, TxPotencia, TxCilindrada}, n \in Numerais}

\* pages after the sites' layout
DocExemplo == << <<TxMarca, TxRenault, TxValorFipe, TxReais, TxModelo, TxLogan>> >>
DocMarcaModelo == << <<TxMarca, TxRenault, TxModelo, TxLogan>> >>
DocModeloMoeda == << <<TxMarca, TxRenault, TxModelo, Tx45mil>> >>
DocPosicional == << encher(<<TxCor, TxFiat, TxVazio, TxUno>>, MIN_TDS) >>
DocsExemplo == {DocExemplo, DocMarcaModelo, DocModeloMoeda, DocPosicional}

Docs == DocsLivres \cup DocsTabela \cup DocsPar \cup DocsDuasTabelas \cup DocsNumeros
        \cup DocsExemplo

\* the pages the sites answer with in the resolution runs
Paginas == {<<>>} \cup DocsPar \cup DocsExemplo

extOcioso == [extInicial EXCEPT !.fase = "ocioso"]

(***************************************************************************)
(* Payloads and responses of the resolution runs                           *)
(***************************************************************************)
semObj == [k \in ChavesJson |-> Indefinido]

\* JSON objects with some of the brand and model keys, the rest missing
JsonPayloads ==
    {[semObj EXCEPT !["MARCA"] = a, !["marca"] = b, !["MODELO"] = c, !["modelo"] = d] :
        a \in {Indefinido, <<>>, TxFiat},
        b \in {Indefinido, <<>>, TxRenault},
        c \in {Indefinido, TxUno},
        d \in {Indefinido, <<>>, TxLogan}}

\* response.data: nothing, a text that is no JSON object, or an object
DadosJson ==
    {[forma |-> f, obj |-> semObj, doc |-> <<>>] : f \in {"vazio", "texto"}}
    \cup {[forma |-> "objeto", obj |-> o, doc |-> <<>>] : o \in JsonPayloads}

\* response.data: nothing, something that is no text, or a page
DadosHtml ==
    {[forma |-> f, obj |-> semObj, doc |-> <<>>] : f \in {"vazio", "objeto"}}
    \cup {[forma |-> "html", obj |-> semObj, doc |-> d] : d \in Paginas}

Falhas ==
    {[tipo |-> "erro", motivo |-> m, status |-> 0,
      data |-> [forma |-> "vazio", obj |-> semObj, doc |-> <<>>]] :
        m \in {"rede", "timeout", "status"}}

Respostas(dados) ==
    Falhas \cup {[tipo |-> "ok", motivo |-> "", status |-> st, data |-> d] :
                    st \in {200, 204}, d \in dados}

Placas == { <<"A", "B", "C", "1", "2", "3", "4">>,
            <<"a", "b", "c", "-", "1", "d", "2", "3">> }

(***************************************************************************)
(* The parts of the program a run does not exercise stay as they are       *)
(* before their first use                                                  *)
(***************************************************************************)
pedidoOcioso ==
    [pc |-> "ocioso", placa |-> <<>>, req |-> [ip |-> "", remoteAddress |-> ""],
     admitido |-> FALSE, status |-> 0, data |-> <<>>, erros |-> <<>>, envios |-> 0]
limOcioso == limInicial(<<RATE_LIMIT_PADRAO>>)
parOcioso == <<>>
adaptOcioso == [resp |-> <<>>, gateway |-> <<>>, apiPlacas |-> <<>>]

Parados(nomes) ==
    /\ "pedido" \in nomes => pedido = pedidoOcioso
    /\ "lim" \in nomes => lim = limOcioso
    /\ "chamadas" \in nomes => chamadas = <<>>
    /\ "par" \in nomes => par = parOcioso
    /\ "adapt" \in nomes => adapt = adaptOcioso

(***************************************************************************)
(* Inputs of the validation runs                                           *)
(***************************************************************************)
MaxPlacaLen == 8
MaxEspeciais == 1
PlacaChars == {"A", "b", "1"}
PlacaEspeciais == {"-", " "}

especiaisEm(s) == Cardinality({k \in DOMAIN s : s[k] \in PlacaEspeciais})

InitPlaca ==
    /\ entrada = <<>>
    /\ valida = <<>>
    /\ html = <<>>
    /\ ext = extOcioso
    /\ scraperApiKey = FALSE
    /\ res = resInicial
    /\ Parados({"pedido", "lim", "chamadas", "par", "adapt"})

\* the caller's text grows by one character
Digitar ==
    /\ valida = <<>>
    /\ Len(entrada) < MaxPlacaLen
    /\ \E c \in PlacaChars \cup PlacaEspeciais :
          /\ c \in PlacaEspeciais => especiaisEm(entrada) < MaxEspeciais
          /\ entrada' = Append(entrada, c)
    /\ UNCHANGED <<valida, html, ext, scraperApiKey, res, pedido, lim, chamadas, par, adapt>>

Validar ==
    /\ valida = <<>>
    /\ valida' = <<validarPlaca(entrada)>>
    /\ UNCHANGED <<entrada, html, ext, scraperApiKey, res, pedido, lim, chamadas, par, adapt>>

NextPlaca == Digitar \/ Validar

SpecPlaca == InitPlaca /\ [][NextPlaca]_vars

(***************************************************************************)
(* The extraction runs: one call of extrairDados on a document             *)
(***************************************************************************)
InitExtrair ==
    /\ html \in Docs
    /\ ext = extOcioso
    /\ entrada = <<>>
    /\ valida = <<>>
    /\ scraperApiKey = FALSE
    /\ res = resInicial
    /\ Parados({"pedido", "lim", "chamadas", "par", "adapt"})

\* line 105: the call
ExtChamar ==
    /\ ext.fase = "ocioso"
    /\ ext' = extInicial
    /\ UNCHANGED <<html, entrada, valida, scraperApiKey, res, pedido, lim, chamadas,
                   par, adapt>>

ExtTier1Iter ==
    /\ ext.fase = "tier1"
    /\ ext.i < Len(todosTds(html)) - 1
    /\ ext' = tier1Iter(todosTds(html), ext)
    /\ UNCHANGED <<html, entrada, valida, scraperApiKey, res, pedido, lim, chamadas,
                   par, adapt>>

ExtTier1Fim ==
    /\ ext.fase = "tier1"
    /\ ~(ext.i < Len(todosTds(html)) - 1)
    /\ ext' = tier1Fim(ext)
    /\ UNCHANGED <<html, entrada, valida, scraperApiKey, res, pedido, lim, chamadas,
                   par, adapt>>

ExtTier2Iter ==
    /\ ext.fase = "tier2"
    /\ ext.t < Len(html)
    /\ ext' = tier2Iter(html, ext)
    /\ UNCHANGED <<html, entrada, valida, scraperApiKey, res, pedido, lim, chamadas,
                   par, adapt>>

ExtTier2Fim ==
    /\ ext.fase = "tier2"
    /\ ~(ext.t < Len(html))
    /\ ext' = tier2Fim(ext)
    /\ UNCHANGED <<html, entrada, valida, scraperApiKey, res, pedido, lim, chamadas,
                   par, adapt>>

NextExtrair ==
    \/ ExtChamar
    \/ ExtTier1Iter
    \/ ExtTier1Fim
    \/ ExtTier2Iter
    \/ ExtTier2Fim

SpecExtrair == InitExtrair /\ [][NextExtrair]_vars

(***************************************************************************)
(* The resolution runs: one call of consultarPlaca                         *)
(***************************************************************************)
Init ==
    /\ scraperApiKey \in BOOLEAN
    /\ res = resInicial
    /\ entrada = <<>>
    /\ valida = <<>>
    /\ html = <<>>
    /\ ext = extOcioso
    /\ Parados({"pedido", "lim", "chamadas", "par", "adapt"})

Chamar ==
    /\ res.pc = "inicio"
    /\ \E placa \in Placas : res' = chamarConsultarPlaca(res, placa)
    /\ UNCHANGED <<scraperApiKey, entrada, valida, html, ext, pedido, lim, chamadas,
                   par, adapt>>

ContinuarGateway ==
    /\ res.pc = "gateway"
    /\ \E resp \in Respostas(DadosJson) : res' = aposGateway(res, resp)
    /\ UNCHANGED <<scraperApiKey, entrada, valida, html, ext, pedido, lim, chamadas,
                   par, adapt>>

ContinuarApiPlacas ==
    /\ res.pc = "apiplacas"
    /\ \E resp \in Respostas(DadosJson) : res' = aposApiPlacas(res, resp)
    /\ UNCHANGED <<scraperApiKey, entrada, valida, html, ext, pedido, lim, chamadas,
                   par, adapt>>

ContinuarSiteDireto ==
    /\ res.pc = "direto"
    /\ \E resp \in Respostas(DadosHtml) : res' = aposSiteDireto(res, resp, scraperApiKey)
    /\ UNCHANGED <<scraperApiKey, entrada, valida, html, ext, pedido, lim, chamadas,
                   par, adapt>>

ContinuarSiteViaProxy ==
    /\ res.pc = "proxy"
    /\ \E resp \in Respostas(DadosHtml) : res' = aposSiteViaProxy(res, resp)
    /\ UNCHANGED <<scraperApiKey, entrada, valida, html, ext, pedido, lim, chamadas,
                   par, adapt>>

Next ==
    \/ Chamar
    \/ ContinuarGateway
    \/ ContinuarApiPlacas
    \/ ContinuarSiteDireto
    \/ ContinuarSiteViaProxy

Spec == Init /\ [][Next]_vars

\* every axios.get carries a timeout (lines 209, 254, 292, 323), so an awaited
\* request settles, with a response or with a failure, and the call goes on
SpecJusta ==
    /\ Init
    /\ [][Next]_vars
    /\ WF_vars(ContinuarGateway)
    /\ WF_vars(ContinuarApiPlacas)
    /\ WF_vars(ContinuarSiteDireto)
    /\ WF_vars(ContinuarSiteViaProxy)

(***************************************************************************)
(* The repeated extraction runs: extrairDados called on one document after *)
(* another, as the site adapters do                                        *)
(***************************************************************************)
MaxChamadas == 3

DocSemMarca == << <<TxModelo, TxLogan>> >>
DocsRepetir == {DocExemplo, DocMarcaModelo, DocModeloMoeda, DocPosicional, DocSemMarca}

InitRepetir ==
    /\ html = <<>>
    /\ ext = extOcioso
    /\ chamadas = <<>>
    /\ entrada = <<>>
    /\ valida = <<>>
    /\ scraperApiKey = FALSE
    /\ res = resInicial
    /\ Parados({"pedido", "lim", "par", "adapt"})

\* line 105: a call on some document; the call before it has returned
RepChamar ==
    /\ ext.fase \in {"ocioso", "retornou"}
    /\ Len(chamadas) < MaxChamadas
    /\ \E doc \in DocsRepetir : html' = doc
    /\ ext' = abrirChamada(ext)
    /\ UNCHANGED <<entrada, valida, scraperApiKey, res, pedido, lim, chamadas, par, adapt>>

\* lines 139, 157 and 176: the call returns to its caller
RepRetornar ==
    /\ ext.fase = "fim"
    /\ chamadas' = Append(chamadas, [doc |-> html, retorno |-> ext.retorno])
    /\ ext' = [ext EXCEPT !.fase = "retornou"]
    /\ UNCHANGED <<html, entrada, valida, scraperApiKey, res, pedido, lim, par, adapt>>

NextRepetir ==
    \/ RepChamar
    \/ ExtTier1Iter
    \/ ExtTier1Fim
    \/ ExtTier2Iter
    \/ ExtTier2Fim
    \/ RepRetornar

SpecRepetir == InitRepetir /\ [][NextRepetir]_vars

(***************************************************************************)
(* The concurrent runs: two resolutions of different plates, their steps   *)
(* interleaved in any order                                                *)
(***************************************************************************)
PlacasPar == << <<"A", "B", "C", "1", "2", "3", "4">>,
               <<"a", "b", "c", "-", "1", "d", "2", "3">> >>

respostaOk(d) == [tipo |-> "ok", motivo |-> "", status |-> 200, data |-> d]

\* what a source may answer a call of these runs with: a failure, or a body
\* of the kind the source serves, with or without a brand
RespostasPar(pc) ==
    {f \in Falhas : f.motivo = "timeout"}
    \cup (IF pc \in {"gateway", "apiplacas"}
          THEN {respostaOk([forma |-> "objeto", doc |-> <<>>, obj |-> o]) :
                   o \in {[semObj EXCEPT !["MARCA"] = TxFiat, !["marca"] = TxFiat],
                          [semObj EXCEPT !["modelo"] = TxUno]}}
          ELSE {respostaOk([forma |-> "html", obj |-> semObj, doc |-> DocMarcaModelo])})

InitPar ==
    /\ par = [i \in 1..2 |-> [placa |-> PlacasPar[i], r |-> resInicial,
                              recebidas |-> <<>>]]
    /\ scraperApiKey \in BOOLEAN
    /\ res = resInicial
    /\ entrada = <<>>
    /\ valida = <<>>
    /\ html = <<>>
    /\ ext = extOcioso
    /\ Parados({"pedido", "lim", "chamadas", "adapt"})

\* one of the two calls starts
ParChamar ==
    /\ \E i \in 1..2 :
          /\ par[i].r.pc = "inicio"
          /\ par' = [par EXCEPT ![i].r = chamarConsultarPlaca(@, par[i].placa)]
    /\ UNCHANGED <<entrada, valida, html, ext, scraperApiKey, res, pedido, lim,
                   chamadas, adapt>>

\* the request one of the two calls waits for settles
ParContinuar ==
    /\ \E i \in 1..2 :
          /\ par[i].r.pc \in {"gateway", "apiplacas", "direto", "proxy"}
          /\ \E resp \in RespostasPar(par[i].r.pc) :
                par' = passoPar(par, i, resp, scraperApiKey)
    /\ UNCHANGED <<entrada, valida, html, ext, scraperApiKey, res, pedido, lim,
                   chamadas, adapt>>

NextPar ==
    \/ ParChamar
    \/ ParContinuar

SpecPar == InitPar /\ [][NextPar]_vars

(***************************************************************************)
(* The adapter runs: one response handed to each of the two JSON adapters  *)
(***************************************************************************)
Tx1999 == <<"1", "9", "9", "9">>

\* JSON objects that also vary the keys of the year and of the displacement
JsonPayloadsAdaptar ==
    {[o EXCEPT !["ano"] = a, !["anoFabricacao"] = b,
               !["cilindrada"] = c, !["cilindradas"] = d] :
        o \in JsonPayloads,
        a \in {Indefinido, Tx2020}, b \in {Indefinido, Tx1999},
        c \in {Indefinido, <<>>}, d \in {Indefinido, Tx1600}}

RespostasAdaptar ==
    Respostas({[forma |-> f, obj |-> semObj, doc |-> <<>>] : f \in {"vazio", "texto"}}
              \cup {[forma |-> "objeto", obj |-> o, doc |-> <<>>] :
                       o \in JsonPayloadsAdaptar})

InitAdaptar ==
    /\ \E resp \in RespostasAdaptar : adapt = [adaptOcioso EXCEPT !.resp = <<resp>>]
    /\ entrada = <<>>
    /\ valida = <<>>
    /\ html = <<>>
    /\ ext = extOcioso
    /\ scraperApiKey = FALSE
    /\ res = resInicial
    /\ Parados({"pedido", "lim", "chamadas", "par"})

\* consultarGateway is given the response
AdaptarGateway ==
    /\ adapt.gateway = <<>>
    /\ adapt' = [adapt EXCEPT !.gateway = <<consultarGateway(adapt.resp[1])>>]
    /\ UNCHANGED <<entrada, valida, html, ext, scraperApiKey, res, pedido, lim,
                   chamadas, par>>

\* consultarApiPlacas is given the response
AdaptarApiPlacas ==
    /\ adapt.apiPlacas = <<>>
    /\ adapt' = [adapt EXCEPT !.apiPlacas = <<consultarApiPlacas(adapt.resp[1])>>]
    /\ UNCHANGED <<entrada, valida, html, ext, scraperApiKey, res, pedido, lim,
                   chamadas, par>>

NextAdaptar ==
    \/ AdaptarGateway
    \/ AdaptarApiPlacas

SpecAdaptar == InitAdaptar /\ [][NextAdaptar]_vars

(***************************************************************************)
(* The limiter runs: requests of two clients, the clock and the sweep      *)
(***************************************************************************)
MaxPedidos == 4
MaxTicks == 3
PassoMs == RATE_WINDOW_MS \div 2

\* process.env.RATE_LIMIT: unset, not a number, or a small number
RateLimitEnvs == {"", "abc", "0", "1", "2"}

\* what Express knows of the client: its address, only the socket's, or none
Reqs == { [ip |-> "10.0.0.1", remoteAddress |-> "10.0.0.1"],
          [ip |-> "", remoteAddress |-> "10.0.0.1"],
          [ip |-> "", remoteAddress |-> ""] }

\* the first sweep falls anywhere in the run: the timer started with the
\* process, the run at a moment with no entry in the map
InitLimitador ==
    /\ \E env \in RateLimitEnvs, k \in 1..MaxTicks :
          lim = [limInicial(parseRateLimit(env)) EXCEPT !.proximaLimpeza = k * PassoMs]
    /\ entrada = <<>>
    /\ valida = <<>>
    /\ html = <<>>
    /\ ext = extOcioso
    /\ scraperApiKey = FALSE
    /\ res = resInicial
    /\ Parados({"pedido", "chamadas", "par", "adapt"})

\* a request passes through the limiter
LimPedido ==
    /\ Len(lim.registo) < MaxPedidos
    /\ \E req \in Reqs : lim' = rateLimit(lim, req).lim
    /\ UNCHANGED <<entrada, valida, html, ext, scraperApiKey, res, pedido, chamadas,
                   par, adapt>>

\* Date.now() advances
LimRelogio ==
    /\ lim.agora + PassoMs <= MaxTicks * PassoMs
    /\ lim' = [lim EXCEPT !.agora = @ + PassoMs]
    /\ UNCHANGED <<entrada, valida, html, ext, scraperApiKey, res, pedido, chamadas,
                   par, adapt>>

\* the timer of the sweep is due
LimLimpar ==
    /\ lim.agora >= lim.proximaLimpeza
    /\ lim' = limpar(lim)
    /\ UNCHANGED <<entrada, valida, html, ext, scraperApiKey, res, pedido, chamadas,
                   par, adapt>>

NextLimitador ==
    \/ LimPedido
    \/ LimRelogio
    \/ LimLimpar

SpecLimitador == InitLimitador /\ [][NextLimitador]_vars

(***************************************************************************)
(* The server runs: one request to GET /:placa, from the limiter to the    *)
(* response                                                                *)
(***************************************************************************)
\* a plate of the current format, written with a hyphen, and three texts
\* that are no plate
PlacasPedido ==
    { <<"a", "b", "c", "-", "1", "d", "2", "3">>,
      <<"A", "B", "1", "2", "3">>,
      <<"A", "B", "C", "1", "2", "D", "3">>,
      <<"A", "B", "C", "1", "2", "3", "4", "5">> }

ReqsServidor == {q \in Reqs : q.ip # "" \/ q.remoteAddress = ""}

\* the limiter with a ceiling of one: untouched, or after one earlier request
\* of the client with an address
LimitesServidor ==
    {limInicial(parseRateLimit("1"))}
    \cup {rateLimit(limInicial(parseRateLimit("1")), q).lim : q \in {r \in Reqs : r.ip # ""}}

InitServidor ==
    /\ \E placa \in PlacasPedido, q \in ReqsServidor :
          pedido = [pedidoOcioso EXCEPT !.pc = "novo", !.placa = placa, !.req = q]
    /\ lim \in LimitesServidor
    /\ scraperApiKey \in BOOLEAN
    /\ res = resInicial
    /\ entrada = <<>>
    /\ valida = <<>>
    /\ html = <<>>
    /\ ext = extOcioso
    /\ Parados({"chamadas", "par", "adapt"})

\* the request arrives: rateLimit, then the handler up to its await
SrvReceber ==
    /\ pedido.pc = "novo"
    /\ LET d == rateLimit(lim, pedido.req)
           p1 == rotaEntrada([pedido EXCEPT !.admitido = TRUE])
       IN  /\ lim' = d.lim
           /\ pedido' = IF d.next THEN p1 ELSE rotaLimitada(pedido)
           /\ res' = IF d.next /\ p1.pc = "aguarda"
                     THEN chamarConsultarPlaca(res, pedido.placa)
                     ELSE res
    /\ UNCHANGED <<entrada, valida, html, ext, scraperApiKey, chamadas, par, adapt>>

\* an exception that no try / catch of the service holds reaches the handler
SrvFalha ==
    /\ pedido.pc = "aguarda"
    /\ res.pc \in {"gateway", "apiplacas", "direto", "proxy"}
    /\ res' = rejeitar(res)
    /\ UNCHANGED <<entrada, valida, html, ext, scraperApiKey, pedido, lim, chamadas,
                   par, adapt>>

\* consultarPlaca settled: the handler answers
SrvResponder ==
    /\ pedido.pc = "aguarda"
    /\ res.pc \in {"retornou", "rejeitada"}
    /\ pedido' = rotaSaida(pedido, res)
    /\ UNCHANGED <<entrada, valida, html, ext, scraperApiKey, res, lim, chamadas,
                   par, adapt>>

NextServidor ==
    \/ SrvReceber
    \/ ContinuarGateway
    \/ ContinuarApiPlacas
    \/ ContinuarSiteDireto
    \/ ContinuarSiteViaProxy
    \/ SrvFalha
    \/ SrvResponder

SpecServidor == InitServidor /\ [][NextServidor]_vars

(***************************************************************************)
(* Properties of the resolution (consultarPlaca)                           *)
(***************************************************************************)
\* the fixed chain of attempts: source and path
Cadeia == << <<"Gateway", "api">>, <<"ApiPlacas", "api">>,
             <<"PlacaIPVA", "direto">>, <<"Keplaca", "direto">>, <<"PlacaFipe", "direto">>,
             <<"PlacaIPVA", "proxy">>, <<"Keplaca", "proxy">>, <<"PlacaFipe", "proxy">> >>

RespostasDadas == {k \in DOMAIN res.historico : res.historico[k].ev = "resposta"}
PedidosFeitos == {k \in DOMAIN res.historico : res.historico[k].ev = "pedido"}

\* C1: the first attempt to yield a record ends the resolution: the call has
\* returned exactly that record and nothing is asked of any source after it.
C1_PrimeiroRegistoEncerra ==
    \A k \in RespostasDadas :
        res.historico[k].rendeu # <<>> =>
            /\ k = Len(res.historico)
            /\ res.emVoo = {}
            /\ res.pc = "retornou"
            /\ res.resultado = res.historico[k].rendeu

\* the fourth source of the chain yielded after three failures, with the
\* proxy round still available
C1_Witness ==
    /\ scraperApiKey
    /\ res.pc = "retornou"
    /\ res.resultado # <<>>
    /\ Len(res.historico) = 8
    /\ res.historico[8].fonte = "Keplaca"

\* C2: the attempts follow the chain one at a time: the j-th request is to the
\* j-th source of the chain, it goes out only after every earlier attempt has
\* answered without a record, and never are two requests in flight.
C2_UmDeCadaVezNaOrdem ==
    LET h == res.historico
    IN  /\ Cardinality(res.emVoo) <= 1
        /\ Len(h) <= 2 * Len(Cadeia)
        /\ \A k \in DOMAIN h :
              /\ h[k].ev = (IF k % 2 = 1 THEN "pedido" ELSE "resposta")
              /\ <<h[k].fonte, h[k].via>> = Cadeia[(k + 1) \div 2]
              /\ (k < Len(h) /\ h[k].ev = "resposta") => h[k].rendeu = <<>>
        /\ res.emVoo = (IF Len(h) % 2 = 1 THEN {Cadeia[(Len(h) + 1) \div 2]} ELSE {})

\* the last attempt of the chain is in flight after seven finished ones
C2_Witness ==
    /\ res.emVoo = {<<"PlacaFipe", "proxy">>}
    /\ Cardinality(RespostasDadas) = 7

\* C3: no outcome of any source makes the call raise: a failed step is followed
\* by the next request, and when every attempt failed the call returns null
\* after the whole chain (5 attempts without the proxy key, 8 with it).
C3_NuncaLanca ==
    /\ res.pc # "rejeitada"
    /\ res.pc \notin {"inicio", "retornou"} => res.emVoo # {}
    /\ (res.pc = "retornou" /\ \A k \in RespostasDadas : res.historico[k].rendeu = <<>>) =>
          /\ res.resultado = <<>>
          /\ Cardinality(PedidosFeitos) = (IF scraperApiKey THEN 8 ELSE 5)

\* all eight attempts failed and the call returned null
C3_Witness ==
    /\ scraperApiKey
    /\ res.pc = "retornou"
    /\ res.resultado = <<>>
    /\ Cardinality(RespostasDadas) = 8

temMarca(carro) ==
    /\ carro["marca"] # Nulo
    /\ carro["marca"] # Indefinido
    /\ carro["marca"] # <<>>

\* C4: every record a source yields, and so every record the call returns,
\* has a brand that is present and not empty.
C4_MarcaPresente ==
    /\ \A k \in RespostasDadas :
          res.historico[k].rendeu # <<>> => temMarca(res.historico[k].rendeu[1])
    /\ res.resultado # <<>> => temMarca(res.resultado[1])

\* a record came back from a page fetched through the proxy
C4_Witness ==
    /\ res.pc = "retornou"
    /\ res.resultado # <<>>
    /\ res.historico[Len(res.historico)].via = "proxy"

campoAparadoOuAusente(v) ==
    \/ v = Nulo
    \/ v # <<>> /\ v # Indefinido /\ trim(v) = v

\* C5: in every returned record each of the 14 fields is a trimmed non-empty
\* text or null; the empty text is never stored.
C5_CamposAparadosOuAusentes ==
    res.resultado # <<>> =>
        \A c \in CamposSet : campoAparadoOuAusente(res.resultado[1][c])

(***************************************************************************)
(* Properties of the extractor (extrairDados)                              *)
(***************************************************************************)
celula(j) == todosTds(html)[j + 1]

\* the cells the label scan examined and found to hold an ignored substring
IgnoradasVistas == {j \in ext.examinados : isLabelIgnorado(celula(j))}

\* no field comes from a label / value pair placed after a scanned ignored cell
semOrigemPosterior ==
    LET vistas == IgnoradasVistas
    IN  \A c \in CamposSet :
            ext.origem[c] >= 0 => \A j \in vistas : ext.origem[c] - 1 <= j

retornouRegisto == ext.fase = "fim" /\ ext.retorno # <<>>
retornouDoScan == retornouRegisto /\ ext.consultadas = {}

\* C6 as stated: whatever tier produced the returned record, none of its fields
\* comes from a pair placed after a scanned ignored cell.
C6_Original ==
    retornouRegisto =>
        \A c \in CamposSet :
            ext.retorno[1][c] \notin {Nulo, <<>>} =>
                \A j \in IgnoradasVistas : ext.origem[c] - 1 <= j

\* C6 amended: the label scan stores nothing from a pair placed after a scanned
\* ignored cell, and the record it returns holds exactly what the scan stored
\* (Marca / RENAULT, Valor FIPE / R$, Modelo / LOGAN gives the brand alone).
C6_ScanNaoPreencheDepois ==
    /\ ~(retornouRegisto /\ ext.consultadas # {}) => semOrigemPosterior
    /\ retornouDoScan =>
          \A c \in CamposSet :
              ext.retorno[1][c] =
                  (IF ext.origem[c] >= 0 THEN trim(celula(ext.origem[c])) ELSE Nulo)
    /\ (ext.fase = "fim" /\ html = DocExemplo) =>
          ext.retorno = <<[c \in CamposSet |->
                             IF c = "marca" THEN trim(TxRenault) ELSE Nulo]>>

\* the page of the example has been extracted: brand kept, model lost
C6_Witness ==
    /\ html = DocExemplo
    /\ retornouDoScan
    /\ 2 \in IgnoradasVistas
    /\ ext.retorno[1]["modelo"] = Nulo

\* the thousand-separated numeral: 1 to 3 digits, groups of "." and 3 digits,
\* then possibly "," and 2 digits
numeralMilhar(w) ==
    \E n \in 1..3, g \in 0..Len(w), d \in {0, 3} :
        /\ Len(w) = n + 4 * g + d
        /\ \A k \in 1..n : w[k] \in Digitos
        /\ \A q \in 0..(g - 1) :
              /\ w[n + 4 * q + 1] = "."
              /\ \A k \in 2..4 : w[n + 4 * q + k] \in Digitos
        /\ d = 3 =>
              /\ w[n + 4 * g + 1] = ","
              /\ w[n + 4 * g + 2] \in Digitos
              /\ w[n + 4 * g + 3] \in Digitos

\* a text with the r$ prefix or of the shape of a thousand-separated numeral
formaMoeda(v) ==
    \/ Len(v) >= 2 /\ v[1] \in {"r", "R"} /\ v[2] = "$"
    \/ numeralMilhar(v)

DocMarcaRenault == << <<TxMarca, TxRenault>> >>
DocMarca2020 == << <<TxMarca, Tx2020>> >>

aceitaRenaultE2020 ==
    /\ (ext.fase = "fim" /\ html = DocMarcaRenault) =>
          ext.retorno # <<>> /\ ext.retorno[1]["marca"] = trim(TxRenault)
    /\ (ext.fase = "fim" /\ html = DocMarca2020) =>
          ext.retorno # <<>> /\ ext.retorno[1]["marca"] = Tx2020

\* C7 as stated: no field of a returned record, of either tier, holds a text of
\* the currency shape, while RENAULT and 2020 are accepted.
C7_Original ==
    /\ retornouRegisto => \A c \in CamposSet : ~formaMoeda(ext.retorno[1][c])
    /\ aceitaRenaultE2020

\* C7 amended: the label scan never stores a text of the currency shape, so no
\* field of a record it returns holds one, and no returned record has one as its
\* brand; RENAULT and 2020 are accepted.
C7_MoedaForaDoScanEDaMarca ==
    /\ \A c \in ChavesResultado : ~formaMoeda(ext.resultado[c])
    /\ retornouDoScan => \A c \in CamposSet : ~formaMoeda(ext.retorno[1][c])
    /\ retornouRegisto => ~formaMoeda(ext.retorno[1]["marca"])
    /\ aceitaRenaultE2020

\* a record came back whose model was offered as 45.000,00 and left out
C7_Witness ==
    /\ html = DocModeloMoeda
    /\ retornouDoScan
    /\ ext.retorno[1]["modelo"] = Nulo

\* the record of the label scan
registoDoScan == [c \in CamposSet |->
                    IF ext.resultado[c] = Indefinido THEN Nulo ELSE ext.resultado[c]]

\* C8: when the label scan has resolved a brand the call returns the record of
\* the scan and the loop over the tables never looks at a table.
C8_Tier1Precede ==
    (ext.fase \in {"tier2", "fim"} /\ ext.resultado["marca"] # Indefinido) =>
        /\ ext.fase = "fim"
        /\ ext.consultadas = {}
        /\ ext.t = 0
        /\ ext.retorno = <<registoDoScan>>

\* the scan resolved a brand in a page with a table of 28 cells whose brand
\* slot holds another text that the positional reading would take
C8_Witness ==
    /\ ext.fase = "fim"
    /\ ext.resultado["marca"] # Indefinido
    /\ \E t \in DOMAIN html :
          /\ Len(html[t]) >= 28
          /\ trim(html[t][2]) # <<>>
          /\ ~formaMoeda(trim(html[t][2]))
          /\ trim(html[t][2]) # ext.resultado["marca"]

DocDuasMarcas == << <<TxMarca, TxRenault, TxMarca, Tx2020>> >>

\* C9: during the label scan a field that holds a value keeps it, and the page
\* with Marca / RENAULT followed by Marca / 2020 returns RENAULT.
C9_PrimeiroValorFica ==
    /\ [][\A c \in ChavesResultado :
            (ext.fase = "tier1" /\ ext.resultado[c] # Indefinido) =>
                ext'.resultado[c] = ext.resultado[c]]_vars
    /\ []((ext.fase = "fim" /\ html = DocDuasMarcas) =>
            ext.retorno # <<>> /\ ext.retorno[1]["marca"] = trim(TxRenault))

\* the second Marca pair has been scanned and the first value was returned
C9_Witness ==
    /\ html = DocDuasMarcas
    /\ ext.fase = "fim"
    /\ 2 \in ext.examinados
    /\ ext.retorno[1]["marca"] = trim(TxRenault)

(***************************************************************************)
(* Properties of validarPlaca                                              *)
(***************************************************************************)
semSeparadores(s) == SelectSeq(s, LAMBDA c : c \notin {"-", " ", "\t", "\n"})

ehLetra(c) == \E k \in 1..26 : c = Maiusculas[k] \/ c = Minusculas[k]

formatoAntigo(s) ==
    /\ Len(s) = 7
    /\ \A k \in 1..3 : ehLetra(s[k])
    /\ \A k \in 4..7 : s[k] \in Digitos

formatoAtual(s) ==
    /\ Len(s) = 7
    /\ \A k \in 1..3 : ehLetra(s[k])
    /\ s[4] \in Digitos
    /\ (ehLetra(s[5]) \/ s[5] \in Digitos)
    /\ \A k \in 6..7 : s[k] \in Digitos

\* C10: validarPlaca answers true exactly when the text, its hyphens and
\* whitespace removed and the case of its letters ignored, has the legacy or
\* the current plate format.
C10_ValidaExatamenteOsFormatos ==
    valida # <<>> =>
        valida[1] = (formatoAntigo(semSeparadores(entrada))
                       \/ formatoAtual(semSeparadores(entrada)))

\* a text with a separator and a lower-case letter was judged valid
C10_Witness ==
    /\ valida = <<TRUE>>
    /\ especiaisEm(entrada) = 1
    /\ \E k \in DOMAIN entrada : entrada[k] = "b"

(***************************************************************************)
(* The proxy round of the resolution                                       *)
(***************************************************************************)
\* the two JSON sources and the three sites asked directly all answered
\* without a record
cincoFalharam ==
    /\ Len(res.historico) >= 10
    /\ \A k \in 1..10 : res.historico[k].via # "proxy" /\ res.historico[k].rendeu = <<>>

PedidosProxy == {k \in PedidosFeitos : res.historico[k].via = "proxy"}

\* C11: without SCRAPER_API_KEY no request ever goes through the proxy and
\* five failed direct attempts end the call with null; with the key, the five
\* failures are followed by the same three sites through the proxy, in the
\* order of SITES, and the first of them to yield a record ends the call with
\* that record.
C11_ProxySoComChave ==
    LET h == res.historico
    IN  /\ PedidosProxy # {} => scraperApiKey /\ cincoFalharam
        /\ (~scraperApiKey /\ cincoFalharam) =>
               /\ res.pc = "retornou"
               /\ res.resultado = <<>>
               /\ Len(h) = 10
        /\ (scraperApiKey /\ cincoFalharam) =>
               /\ Len(h) >= 11
               /\ \A k \in 11..Len(h) :
                     /\ h[k].via = "proxy"
                     /\ h[k].fonte = SITES[(k - 9) \div 2]
                     /\ h[k].ev = (IF k % 2 = 1 THEN "pedido" ELSE "resposta")
                     /\ h[k].rendeu # <<>> =>
                           /\ k = Len(h)
                           /\ res.pc = "retornou"
                           /\ res.resultado = h[k].rendeu
               /\ (Len(h) = 16 /\ h[16].rendeu = <<>>) =>
                     res.pc = "retornou" /\ res.resultado = <<>>
               /\ (Len(h) < 16 /\ h[Len(h)].rendeu = <<>>) => res.pc = "proxy"

\* the key is absent and the call returned null after five failed attempts
C11_Witness ==
    /\ ~scraperApiKey
    /\ cincoFalharam
    /\ res.pc = "retornou"
    /\ res.resultado = <<>>

(***************************************************************************)
(* Properties of the route GET /:placa                                     *)
(***************************************************************************)
\* the text is a plate of the legacy or of the current format
temFormato(placa) ==
    formatoAntigo(semSeparadores(placa)) \/ formatoAtual(semSeparadores(placa))

\* C12: a plate that fails the format check is answered with the format
\* error and no request to any source (JSON, site or proxy) is ever issued
\* for it.
C12_InvalidaSemFontes ==
    (pedido.pc # "ocioso" /\ ~temFormato(pedido.placa)) =>
        /\ res.pc = "inicio"
        /\ res.historico = <<>>
        /\ res.emVoo = {}
        /\ (pedido.pc = "respondeu" /\ pedido.admitido) =>
              /\ pedido.status = 400
              /\ pedido.erros = <<ERRO_FORMATO>>

\* a text of the right length and the wrong shape was answered with 400
C12_Witness ==
    /\ pedido.pc = "respondeu"
    /\ pedido.placa = <<"A", "B", "C", "1", "2", "D", "3">>
    /\ pedido.status = 400
    /\ res.historico = <<>>

\* C13: an admitted request is answered once, with 400 exactly when the plate
\* has no valid format, 404 exactly when the resolution ran out of sources,
\* 200 and the record exactly when a source yielded one, 500 exactly when the
\* resolution ended in an exception; no other status is sent.
C13_QuatroDesfechos ==
    /\ (pedido.admitido /\ pedido.pc # "respondeu") => pedido.envios = 0
    /\ (pedido.admitido /\ pedido.pc = "respondeu") =>
          /\ pedido.envios = 1
          /\ pedido.status \in {400, 404, 200, 500}
          /\ pedido.status = 400 <=> ~temFormato(pedido.placa)
          /\ pedido.status = 500 <=> res.pc = "rejeitada"
          /\ pedido.status = 404 <=>
                /\ res.pc = "retornou"
                /\ res.resultado = <<>>
                /\ Cardinality(PedidosFeitos) = (IF scraperApiKey THEN 8 ELSE 5)
                /\ \A k \in RespostasDadas : res.historico[k].rendeu = <<>>
          /\ pedido.status = 200 <=>
                /\ res.pc = "retornou"
                /\ res.resultado # <<>>
                /\ res.historico[Len(res.historico)].rendeu = res.resultado
          /\ pedido.data = (IF pedido.status = 200 THEN res.resultado ELSE <<>>)

\* the third site, asked directly, yielded the record the response carries
C13_Witness ==
    /\ pedido.pc = "respondeu"
    /\ pedido.status = 200
    /\ pedido.data # <<>>
    /\ pedido.data = res.historico[Len(res.historico)].rendeu
    /\ res.historico[Len(res.historico)].fonte = "PlacaFipe"

(***************************************************************************)
(* Properties of the rate limiter                                          *)
(***************************************************************************)
\* the requests of the window that request k opened: those of the same key
\* from k up to the next request of that key that opens a window
janela(k) ==
    LET g == lim.registo
    IN  {j \in k..Len(g) :
            /\ g[j].chave = g[k].chave
            /\ \A m \in (k + 1)..j : ~(g[m].chave = g[k].chave /\ g[m].abriu)}

Aberturas == {k \in DOMAIN lim.registo : lim.registo[k].abriu}

\* the opening of the window request j falls in, 0 if the key has none
aberturaDe(j) ==
    LET g == lim.registo
        antes == {k \in Aberturas : k < j /\ g[k].chave = g[j].chave}
    IN  IF antes = {} THEN 0 ELSE CHOOSE k \in antes : \A m \in antes : m <= k

admitidosAntes(j) ==
    LET k == aberturaDe(j)
    IN  Cardinality({m \in k..(j - 1) : m \in janela(k) /\ lim.registo[m].admitido})

\* what the three rules of the limiter make of every request: it opens a
\* window when its key has none or the last one expired, it is rejected when
\* the count is at or over the ceiling, it is counted otherwise
regrasDoLimitador ==
    LET g == lim.registo
    IN  \A j \in DOMAIN g :
           LET k == aberturaDe(j)
               expirada == k = 0 \/ g[j].t > g[k].t + RATE_WINDOW_MS
           IN  /\ g[j].abriu <=> expirada
               /\ g[j].abriu => g[j].admitido
               /\ ~expirada =>
                     (g[j].admitido <=>
                        ~(lim.RATE_LIMIT # <<>> /\ admitidosAntes(j) >= lim.RATE_LIMIT[1]))

\* no window admits more requests than the ceiling
tetoPorJanela ==
    lim.RATE_LIMIT # <<>> =>
        \A k \in Aberturas :
            Cardinality({j \in janela(k) : lim.registo[j].admitido}) <= lim.RATE_LIMIT[1]

\* C14: for every key and every window the limiter admits at most the
\* configured ceiling of requests; a request that finds the window expired
\* resets the entry, one that finds the count at or over the ceiling is
\* rejected, any other is counted.
C14_TetoPorJanela ==
    /\ tetoPorJanela
    /\ regrasDoLimitador

RECURSIVE correrSozinha(_, _, _)
correrSozinha(r, resps, chave) ==
    IF resps = <<>> THEN r
    ELSE correrSozinha(continuar(r, Head(resps), chave), Tail(resps), chave)

sozinha(placa, resps, chave) ==
    correrSozinha(chamarConsultarPlaca(resInicial, placa), resps, chave)

naoVazio(v) == v \notin {Indefinido, Nulo, <<>>}

\* a brand key of the payload, MARCA or marca, holds a non-empty value
marcaResolve(resp) ==
    /\ resp.tipo = "ok"
    /\ resp.data.forma = "objeto"
    /\ (naoVazio(resp.data.obj["MARCA"]) \/ naoVazio(resp.data.obj["marca"]))

\* v is the value of the first key of the list that is present and not
\* empty, or null when there is none
primeiroNaoVazio(obj, chaves, v) ==
    \/ /\ \A k \in DOMAIN chaves : ~naoVazio(obj[chaves[k]])
       /\ v = Nulo
    \/ \E k \in DOMAIN chaves :
          /\ naoVazio(obj[chaves[k]])
          /\ \A j \in 1..(k - 1) : ~naoVazio(obj[chaves[j]])
          /\ v = obj[chaves[k]]

adaptadorCerto(resp, out, chaves) ==
    /\ ~out.lancou
    /\ ~marcaResolve(resp) => out.valor = <<>>
    /\ out.valor # <<>> =>
          /\ marcaResolve(resp)
          /\ naoVazio(out.valor[1]["marca"])
          /\ \A c \in CamposSet :
                primeiroNaoVazio(resp.data.obj, chaves[c], out.valor[1][c])

\* C17: neither adapter ever raises; each returns a record only when a brand
\* key (MARCA or marca) holds a non-empty value and null otherwise; every
\* field of the record is the value of the first non-empty key in the
\* adapter's fixed order; source B, given marca and MARCA both non-empty,
\* returns a record whose brand is that of marca.
C17_AdaptadoresJson ==
    /\ adapt.gateway # <<>> =>
          adaptadorCerto(adapt.resp[1], adapt.gateway[1], CHAVES_GATEWAY)
    /\ adapt.apiPlacas # <<>> =>
          /\ adaptadorCerto(adapt.resp[1], adapt.apiPlacas[1], CHAVES_APIPLACAS)
          /\ (/\ adapt.resp[1].tipo = "ok"
              /\ adapt.resp[1].data.forma = "objeto"
              /\ naoVazio(adapt.resp[1].data.obj["marca"])
              /\ naoVazio(adapt.resp[1].data.obj["MARCA"])) =>
                /\ adapt.apiPlacas[1].valor # <<>>
                /\ adapt.apiPlacas[1].valor[1]["marca"] = adapt.resp[1].data.obj["marca"]

\* both adapters were given a payload with marca and MARCA, both non-empty
\* and different, and each returned a record with the brand of its first key
C17_Witness ==
    /\ adapt.gateway # <<>>
    /\ adapt.apiPlacas # <<>>
    /\ adapt.gateway[1].valor # <<>>
    /\ adapt.apiPlacas[1].valor # <<>>
    /\ adapt.gateway[1].valor[1]["marca"] = TxFiat
    /\ adapt.apiPlacas[1].valor[1]["marca"] = TxRenault
    /\ adapt.apiPlacas[1].valor[1]["ano"] = Tx2020
    /\ adapt.resp[1].data.obj["anoFabricacao"] = Tx1999

(***************************************************************************)
(* Properties of the positional reading                                    *)
(***************************************************************************)
\* table t (1-based) has 28 cells or more and a brand slot that is neither
\* empty nor a currency value for the classifier (isValorFinanceiro, which
\* besides the r$ prefix and the thousand-separated numeral takes "r $")
tabelaServe(t) ==
    /\ Len(html[t]) >= 28
    /\ trim(html[t][2]) # <<>>
    /\ ~isValorFinanceiro(html[t][2])

TabelasQueServem == {t \in DOMAIN html : tabelaServe(t)}

\* the record of the cells 1, 3, ..., 27 of table t
registoDaTabela(t) ==
    [c \in CamposSet |-> trim(html[t][2 * (CHOOSE k \in 1..14 : Campos[k] = c)])]

\* C18: the loop over the tables looks at a table only when the label scan
\* resolved no brand; it looks at the tables in document order, passes over
\* the tables of fewer than 28 cells and over those whose brand slot is empty
\* or of the currency shape, and returns the record of the cells 1, 3, ..., 27
\* of the first table that is left, or null when no table is left.
C18_PrimeiraTabelaQueServe ==
    /\ ext.consultadas # {} => ext.resultado["marca"] = Indefinido
    /\ ext.fase \in {"tier2", "fim"} =>
          /\ ext.consultadas \in {0..(n - 1) : n \in 0..Len(html)}
          /\ \A t \in ext.consultadas :
                tabelaServe(t + 1) => (ext.fase = "fim" /\ t + 1 = ext.t + 1)
    /\ (ext.fase = "fim" /\ ext.resultado["marca"] = Indefinido) =>
          IF TabelasQueServem = {}
          THEN /\ ext.retorno = <<>>
               /\ ext.consultadas = {t - 1 : t \in DOMAIN html}
          ELSE LET t == CHOOSE u \in TabelasQueServem :
                            \A w \in TabelasQueServem : u <= w
               IN  /\ ext.retorno = <<registoDaTabela(t)>>
                   /\ ext.consultadas = 0..(t - 1)

\* the call returned the record of the third table after passing over a table
\* of 28 cells with a brand slot of the currency shape and over a short table
C18_Witness ==
    /\ ext.fase = "fim"
    /\ Len(html) = 3
    /\ Len(html[1]) >= 28
    /\ formaMoeda(trim(html[1][2]))
    /\ Len(html[2]) < 28
    /\ ext.consultadas = {0, 1, 2}
    /\ ext.retorno # <<>>
    /\ ext.retorno[1]["marca"] = trim(TxRenault)
    /\ ext.retorno[1]["modelo"] = Tx45mil

(***************************************************************************)
(* Properties of the cells of the label scan                               *)
(***************************************************************************)
ultimaCelula == Len(todosTds(html)) - 1

\* a cell that passed the value test is never examined as a label
aceitosNuncaLabel == ext.aceitos \cap ext.examinados = {}

\* the rejected cell j has been examined as a label or is the label of the
\* iteration to come, and once the scan is over the flag is set if the cell
\* holds an ignored substring
rejeitadoCerto(j) ==
    /\ j \in ext.examinados \/ (ext.fase = "tier1" /\ ext.i = j)
    /\ (ext.fase # "tier1" /\ isLabelIgnorado(celula(j))) => ext.dentroDeSecaoFipe

\* the step after the rejection of cell j is an iteration that examines the
\* cell as a label and sets the flag if the cell holds an ignored substring
rejeitadoPasso(j) ==
    (ext.fase = "tier1" /\ ext.i = j) =>
        /\ ext'.fase = "tier1"
        /\ j \in ext'.examinados
        /\ isLabelIgnorado(celula(j)) => ext'.dentroDeSecaoFipe

\* C19 as stated: a cell accepted as a value is never examined as a label, and
\* every cell rejected as a value is examined as a label in the next
\* iteration and sets the flag when it holds an ignored substring.
C19_Original ==
    /\ [](aceitosNuncaLabel /\ \A j \in ext.rejeitados : rejeitadoCerto(j))
    /\ [][\A j \in ext.rejeitados : rejeitadoPasso(j)]_vars

\* C19: a cell accepted as a value is never examined as a label; a cell
\* rejected as a value that is not the last cell of the document is examined
\* as a label in the next iteration and sets the flag when it holds an ignored
\* substring; the last cell of the document is never examined as a label,
\* rejected or not.
C19_RejeitadoViraLabel ==
    /\ [](/\ aceitosNuncaLabel
          /\ \A j \in ext.rejeitados \ {ultimaCelula} : rejeitadoCerto(j)
          /\ ultimaCelula \notin ext.examinados)
    /\ [][\A j \in ext.rejeitados \ {ultimaCelula} : rejeitadoPasso(j)]_vars

\* the scan stored RENAULT from an accepted cell, then rejected a value with
\* an ignored substring, examined it as a label and set the flag
C19_Witness ==
    /\ ext.fase = "fim"
    /\ 1 \in ext.aceitos
    /\ \E j \in ext.rejeitados \cap ext.examinados :
          /\ isLabelIgnorado(celula(j))
          /\ ext.dentroDeSecaoFipe
    /\ ext.retorno # <<>>

(***************************************************************************)
(* Termination of the resolution                                           *)
(***************************************************************************)
\* the positions of the history where a request went out
Tentativas == {k \in DOMAIN res.historico : res.historico[k].ev = "pedido"}

\* C20: when every awaited request settles, a call of consultarPlaca
\* returns; it makes at most 5 requests without the proxy key and at most 8
\* with it, and never asks the same source twice by the same path.
C20_Termina ==
    /\ (res.pc # "inicio") ~> (res.pc = "retornou")
    /\ [](Cardinality(Tentativas) <= IF scraperApiKey THEN 8 ELSE 5)
    /\ [](\A k, m \in Tentativas :
            (res.historico[k].fonte = res.historico[m].fonte
             /\ res.historico[k].via = res.historico[m].via) => k = m)

\* the call returned none after the eight requests of a run with the key
C20_Witness ==
    /\ res.pc = "retornou"
    /\ scraperApiKey
    /\ res.resultado = <<>>
    /\ Cardinality(Tentativas) = 8
    /\ res.emVoo = {}

(***************************************************************************)
(* Properties of the short numerals                                        *)
(***************************************************************************)
\* a text of n digits and nothing else
soDigitos(v, n) == Len(v) = n /\ \A k \in 1..n : v[k] \in Digitos

umATresDigitos(v) == \E n \in 1..3 : soDigitos(v, n)

CelulasDoDocumento == 0..(Len(todosTds(html)) - 1)

DocPassageiros5 == << <<TxMarca, TxRenault, TxPassageiros, Tx5, TxAno, Tx2020>> >>

\* C21: the value test takes every text of one to three digits for a
\* currency value, so the label scan never accepts such a cell and never holds
\* such a text in a field; a numeral of four digits is never rejected, and the
\* page Marca / RENAULT, Passageiros / 5, Ano / 2020 returns the year 2020 and
\* no seating capacity.
C21_NumeralCurtoRejeitado ==
    /\ \A j \in CelulasDoDocumento :
          umATresDigitos(trim(celula(j))) =>
              /\ isValorFinanceiro(celula(j))
              /\ j \notin ext.aceitos
    /\ \A c \in ChavesResultado :
          ext.resultado[c] # Indefinido => ~umATresDigitos(ext.resultado[c])
    /\ \A j \in ext.rejeitados : ~soDigitos(trim(celula(j)), 4)
    /\ (ext.fase = "fim" /\ html = DocPassageiros5) =>
          /\ ext.retorno # <<>>
          /\ ext.retorno[1]["ano"] = Tx2020
          /\ ext.retorno[1]["passageiros"] = Nulo

\* the scan rejected a numeral of one to three digits that followed the label
\* of a numeric field, and stored the year of four digits that came after it
C21_Witness ==
    /\ ext.fase = "fim"
    /\ 3 \in ext.rejeitados
    /\ umATresDigitos(trim(celula(3)))
    /\ LABEL_MAP(normalizarLabel(celula(2))) \in {"passageiros", "potencia", "cilindrada"}
    /\ 5 \in ext.aceitos
    /\ ext.resultado["ano"] = Tx2020
    /\ ext.retorno # <<>>

(***************************************************************************)
(* Properties of the response body                                         *)
(***************************************************************************)
\* C22: the body of every response of GET /:placa, whatever its status among
\* 200, 400, 404, 429 and 500, holds a record in data exactly when erros is
\* empty, and holds a record in data only with the status 200.
C22_DataOuErros ==
    pedido.pc = "respondeu" =>
        /\ pedido.status \in {200, 400, 404, 429, 500}
        /\ pedido.data # <<>> <=> pedido.erros = <<>>
        /\ pedido.data # <<>> => pedido.status = 200
        /\ pedido.data # <<>> => DOMAIN pedido.data[1] = CamposSet

\* the limiter answered 429 with no record and one message
C22_Witness ==
    /\ pedido.pc = "respondeu"
    /\ pedido.status = 429
    /\ ~pedido.admitido
    /\ pedido.data = <<>>
    /\ Len(pedido.erros) = 1

====
